---------------------------- MODULE Spec2Model ----------------------------
(***************************************************************************)
(* A model of packages/datagrid/src/view.ts: the View class over static    *)
(* JSON data (rowCount, columnCount, metadata, data) and the two private   *)
(* helpers that run at construction (splitFields, createMissingMap).       *)
(***************************************************************************)
EXTENDS Integers, Sequences, FiniteSets, TLC

(***************************************************************************)
(* JavaScript values.  A value carries its typeof tag in t; a field object  *)
(* is a record with name and type.                                          *)
(***************************************************************************)
Undefined == [t |-> "undefined"]

Null == [t |-> "null"]

Str(s) == [t |-> "string", s |-> s]

Num(n) == [t |-> "number", n |-> n]

Bool(b) == [t |-> "boolean", b |-> b]

Arr(a) == [t |-> "array", a |-> a]

TypeError == [t |-> "TypeError"]

\* typeof value === 'string'
IsString(value) == value.t = "string"

\* array[index]: undefined outside 0 .. length-1
At(array, index) ==
  IF index \in 0 .. Len(array) - 1 THEN array[index + 1] ELSE Undefined

\* record[name]: undefined when the record has no such key
Get(record, name) ==
  IF name \in DOMAIN record THEN record[name] ELSE Undefined

\* array.indexOf(x), 0-based, -1 when absent
IndexOf(array, x) ==
  IF \E i \in 1 .. Len(array) : array[i] = x
    THEN (CHOOSE i \in 1 .. Len(array) :
            array[i] = x /\ \A j \in 1 .. i - 1 : array[j] # x) - 1
    ELSE -1

(***************************************************************************)
(* Bounds and input universes.                                             *)
(***************************************************************************)
MaxKeys == 2

MaxFields == 2

MaxMissing == 1

MaxRows == 3

Names == {"id", "x", "NA"}

Types == {"integer", "string"}

KeyNames == Names \cup {"k"}

MissingStrings == {"NA", ""}

CellRegions == {"body", "row-header", "column-header", "corner-header"}

AnyRegions == CellRegions \cup {"bogus"}

SeqsUpTo(S, n) == UNION {[1 .. k -> S] : k \in 0 .. n}

\* View.IField
IField == [name : Names, type : Types]

\* the fields the view's schemas are drawn from
SampleFields ==
  { [name |-> "id", type |-> "integer"],
    [name |-> "x", type |-> "string"],
    [name |-> "NA", type |-> "string"] }

\* ISchema.primaryKey?: string | string[]
PrimaryKeys ==
  {Undefined} \cup {Str(k) : k \in KeyNames}
    \cup {Arr(a) : a \in SeqsUpTo(KeyNames, MaxKeys)}

\* the primary keys the view's schemas are drawn from
SamplePrimaryKeys ==
  { Undefined, Str("id"), Str("NA"), Arr(<<>>), Arr(<<"x">>),
    Arr(<<"NA", "id">>) }

\* ISchema.missingValues?: string[]
MissingValues ==
  {Undefined} \cup {Arr(a) : a \in SeqsUpTo(MissingStrings, MaxMissing)}

\* the records the view's data sources are drawn from, one per row index
SampleRows ==
  << [id |-> Num(1), x |-> Str("NA"), NA |-> Str("hello")],
     [id |-> Str(""), x |-> Bool(TRUE), NA |-> Null],
     [id |-> Null, NA |-> Str("NA")] >>

SampleRow(i) == SampleRows[((i - 1) % Len(SampleRows)) + 1]

\* View.DataSource
DataSources == {[i \in 1 .. n |-> SampleRow(i)] : n \in 0 .. MaxRows}

(***************************************************************************)
(* Private.splitFields                                                     *)
(***************************************************************************)
\* the normalized primary keys
normalizeKeys(schema) ==
  IF schema.primaryKey = Undefined THEN <<>>
  ELSE IF IsString(schema.primaryKey) THEN <<schema.primaryKey.s>>
  ELSE schema.primaryKey.a

RECURSIVE splitLoop(_, _, _, _)
splitLoop(fields, primaryKeys, bodyFields, headerFields) ==
  IF fields = <<>>
    THEN [bodyFields |-> bodyFields, headerFields |-> headerFields]
    ELSE LET field == Head(fields) IN
      IF IndexOf(primaryKeys, field.name) = -1
        THEN splitLoop(Tail(fields), primaryKeys,
                       Append(bodyFields, field), headerFields)
        ELSE splitLoop(Tail(fields), primaryKeys,
                       bodyFields, Append(headerFields, field))

\* splitFields without the else: a key field is pushed to both lists
splitFields_bothPush(schema) ==
  LET S == splitLoop(schema.fields, normalizeKeys(schema), <<>>, <<>>) IN
    [bodyFields |-> schema.fields, headerFields |-> S.headerFields]

RECURSIVE fieldsNamed(_, _)
fieldsNamed(fields, primaryKeys) ==
  IF primaryKeys = <<>> THEN <<>>
  ELSE LET IsKey(f) == f.name = Head(primaryKeys) IN
    SelectSeq(fields, IsKey) \o fieldsNamed(fields, Tail(primaryKeys))

\* splitFields collecting the header fields by walking the primary keys
splitFields_keyOrder(schema) ==
  LET S == splitLoop(schema.fields, normalizeKeys(schema), <<>>, <<>>) IN
    [bodyFields |-> S.bodyFields,
     headerFields |-> fieldsNamed(schema.fields, normalizeKeys(schema))]

\* splitFields testing only the first primary key
splitFields_firstKey(schema) ==
  LET primaryKeys == normalizeKeys(schema) IN
    splitLoop(schema.fields,
              IF primaryKeys = <<>> THEN <<>> ELSE <<Head(primaryKeys)>>,
              <<>>, <<>>)

splitFields(schema) ==
  splitLoop(schema.fields, normalizeKeys(schema), <<>>, <<>>)

(***************************************************************************)
(* Private.createMissingMap: null, or the map as the set of its keys.      *)
(***************************************************************************)
\* createMissingMap falling back to the Table Schema default [""] when the
\* schema has no missingValues, and building a map for every list
createMissingMap_defaultList(schema) ==
  LET list == IF schema.missingValues = Undefined THEN <<"">>
              ELSE schema.missingValues.a IN
    [t |-> "object", keys |-> {list[i] : i \in 1 .. Len(list)}]

createMissingMap(schema) ==
  IF schema.missingValues = Undefined \/ Len(schema.missingValues.a) = 0
    THEN Null
    ELSE [t |-> "object",
          keys |-> {schema.missingValues.a[i] :
                      i \in 1 .. Len(schema.missingValues.a)}]

(***************************************************************************)
(* View                                                                    *)
(***************************************************************************)
\* constructor
NewView(options) ==
  LET split == splitFields(options.schema) IN
    [_data |-> options.data,
     _bodyFields |-> split.bodyFields,
     _headerFields |-> split.headerFields,
     _missingValues |-> createMissingMap(options.schema)]

Return(value, lookups) ==
  [kind |-> "return", value |-> value, lookups |-> lookups]

Throw(value, lookups) ==
  [kind |-> "throw", value |-> value, lookups |-> lookups]

\* rowCount without the region test
rowCount_anyRegion(view, region) == Return(Num(Len(view._data)), <<>>)

rowCount(view, region) ==
  IF region = "body" THEN Return(Num(Len(view._data)), <<>>)
  ELSE Return(Num(1), <<>>)

\* columnCount with the two lists exchanged
columnCount_swapped(view, region) ==
  IF region = "body" THEN Return(Num(Len(view._headerFields)), <<>>)
  ELSE Return(Num(Len(view._bodyFields)), <<>>)

columnCount(view, region) ==
  IF region = "body" THEN Return(Num(Len(view._bodyFields)), <<>>)
  ELSE Return(Num(Len(view._headerFields)), <<>>)

\* metadata testing for 'body' alone
metadata_bodyOnly(view, region, column) ==
  IF region = "body"
    THEN Return(At(view._bodyFields, column), <<>>)
    ELSE Return(At(view._headerFields, column), <<>>)

metadata(view, region, column) ==
  IF region = "body" \/ region = "column-header"
    THEN Return(At(view._bodyFields, column), <<>>)
    ELSE Return(At(view._headerFields, column), <<>>)

\* data, lines 100-119: the field and value for the region.  Reading
\* .name of an undefined field, or a key of an undefined record, throws a
\* TypeError.
cellOf(view, fields, row, column) ==
  LET field == At(view[fields], column) IN
    IF field = Undefined THEN Throw(TypeError, <<fields>>)
    ELSE IF row \notin 0 .. Len(view._data) - 1
      THEN Throw(TypeError, <<fields, "_data">>)
    ELSE Return(Get(view._data[row + 1], field.name), <<fields, "_data">>)

labelOf(view, fields, column) ==
  LET field == At(view[fields], column) IN
    IF field = Undefined THEN Throw(TypeError, <<fields>>)
    ELSE Return(Str(field.name), <<fields>>)

\* the switch with 'corner-header' as its default case
lookup_noDefault(view, region, row, column) ==
  CASE region = "body" -> cellOf(view, "_bodyFields", row, column)
    [] region = "column-header" -> labelOf(view, "_bodyFields", column)
    [] region = "row-header" -> cellOf(view, "_headerFields", row, column)
    [] OTHER -> labelOf(view, "_headerFields", column)

lookup(view, region, row, column) ==
  CASE region = "body" -> cellOf(view, "_bodyFields", row, column)
    [] region = "column-header" -> labelOf(view, "_bodyFields", column)
    [] region = "row-header" -> cellOf(view, "_headerFields", row, column)
    [] region = "corner-header" -> labelOf(view, "_headerFields", column)
    [] OTHER -> Throw(Str("unreachable"), <<>>)

\* the missing test without the map membership
isMissing_anyString(missingValues, value) ==
  /\ missingValues # Null
  /\ IsString(value)

\* data, lines 122-126
isMissing(missingValues, value) ==
  /\ missingValues # Null
  /\ IsString(value)
  /\ value.s \in missingValues.keys

\* data testing for missing values in the two data regions only
data_cellsOnly(view, region, row, column) ==
  LET found == lookup(view, region, row, column) IN
    IF found.kind = "throw" THEN found
    ELSE IF /\ region \in {"body", "row-header"}
            /\ isMissing(view._missingValues, found.value)
      THEN Return(Null, found.lookups)
      ELSE Return(found.value, found.lookups)

data(view, region, row, column) ==
  LET found == lookup(view, region, row, column) IN
    IF found.kind = "throw" THEN found
    ELSE IF isMissing(view._missingValues, found.value)
      THEN Return(Null, found.lookups)
      ELSE Return(found.value, found.lookups)

(***************************************************************************)
(* The state machine: the options handed to the constructor, the view      *)
(* built from them, and the last query with its outcome.                   *)
(***************************************************************************)
VARIABLES options, pc, view, call, result

vars == <<options, pc, view, call, result>>

NoView == [t |-> "undefined"]

NoCall == [op |-> "none", region |-> "", row |-> 0, column |-> 0]

NoResult == [kind |-> "none", value |-> Undefined, lookups |-> <<>>]

Schemas ==
  [fields : SeqsUpTo(SampleFields, MaxFields),
   missingValues : MissingValues,
   primaryKey : SamplePrimaryKeys]

Init ==
  /\ options \in [schema : Schemas, data : DataSources]
  /\ pc = "new"
  /\ view = NoView
  /\ call = NoCall
  /\ result = NoResult

Construct ==
  /\ pc = "new"
  /\ view' = NewView(options)
  /\ pc' = "ready"
  /\ UNCHANGED <<options, call, result>>

Rows == 0 .. Len(options.data)

Columns == 0 .. Len(options.schema.fields)

RowCount ==
  /\ pc = "ready"
  /\ \E region \in CellRegions :
       /\ call' = [op |-> "rowCount", region |-> region, row |-> 0, column |-> 0]
       /\ result' = rowCount(view, region)
  /\ pc' = "called"
  /\ UNCHANGED <<options, view>>

ColumnCount ==
  /\ pc = "ready"
  /\ \E region \in CellRegions :
       /\ call' = [op |-> "columnCount", region |-> region, row |-> 0,
                   column |-> 0]
       /\ result' = columnCount(view, region)
  /\ pc' = "called"
  /\ UNCHANGED <<options, view>>

Metadata ==
  /\ pc = "ready"
  /\ \E region \in CellRegions, column \in Columns :
       /\ call' = [op |-> "metadata", region |-> region, row |-> 0,
                   column |-> column]
       /\ result' = metadata(view, region, column)
  /\ pc' = "called"
  /\ UNCHANGED <<options, view>>

Data ==
  /\ pc = "ready"
  /\ \E region \in AnyRegions, row \in Rows, column \in Columns :
       /\ call' = [op |-> "data", region |-> region, row |-> row,
                   column |-> column]
       /\ result' = data(view, region, row, column)
  /\ pc' = "called"
  /\ UNCHANGED <<options, view>>

\* the caller takes the outcome; the view is ready for the next query
Resume ==
  /\ pc = "called"
  /\ pc' = "ready"
  /\ call' = NoCall
  /\ result' = NoResult
  /\ UNCHANGED <<options, view>>

Next == Construct \/ RowCount \/ ColumnCount \/ Metadata \/ Data \/ Resume

Spec == Init /\ [][Next]_vars

(***************************************************************************)
(* splitFields on its own, over every schema shape.                        *)
(***************************************************************************)
SplitSchemas ==
  [fields : SeqsUpTo(IField, MaxFields),
   missingValues : {Undefined},
   primaryKey : PrimaryKeys]

SplitInit ==
  /\ options \in [schema : SplitSchemas, data : {<<>>}]
  /\ pc = "new"
  /\ view = NoView
  /\ call = NoCall
  /\ result = NoResult

SplitFields ==
  /\ pc = "new"
  /\ call' = [op |-> "splitFields", region |-> "", row |-> 0, column |-> 0]
  /\ result' = Return(splitFields(options.schema), <<>>)
  /\ pc' = "split"
  /\ UNCHANGED <<options, view>>

SplitNext == SplitFields

SplitSpec == SplitInit /\ [][SplitNext]_vars

(***************************************************************************)
(* What the schema says, stated without the code's loops.                  *)
(***************************************************************************)
\* the set of names a primaryKey designates
KeySet(primaryKey) ==
  IF primaryKey = Undefined THEN {}
  ELSE IF primaryKey.t = "string" THEN {primaryKey.s}
  ELSE {primaryKey.a[i] : i \in 1 .. Len(primaryKey.a)}

\* the fields at the positions I, in schema order
RECURSIVE Restrict(_, _, _)
Restrict(fields, I, from) ==
  IF from > Len(fields) THEN <<>>
  ELSE (IF from \in I THEN <<fields[from]>> ELSE <<>>)
         \o Restrict(fields, I, from + 1)

KeyPositions(schema) ==
  {i \in 1 .. Len(schema.fields) :
     schema.fields[i].name \in KeySet(schema.primaryKey)}

HeaderOf(schema) == Restrict(schema.fields, KeyPositions(schema), 1)

BodyOf(schema) ==
  Restrict(schema.fields,
           (1 .. Len(schema.fields)) \ KeyPositions(schema), 1)

FieldNames(schema) ==
  {schema.fields[i].name : i \in 1 .. Len(schema.fields)}

Elements(seq) == {seq[i] : i \in 1 .. Len(seq)}

Split == pc = "split"

(***************************************************************************)
(* C1.  splitFields partitions the schema's field list exactly: there is a *)
(* set of positions such that bodyFields is the fields outside it and      *)
(* headerFields the fields inside it, each in schema order, so every field *)
(* occurrence is in exactly one of the two and the lengths add up.         *)
(***************************************************************************)
C1_PartitionExact ==
  Split =>
    LET fields == options.schema.fields
        all == 1 .. Len(fields)
    IN /\ result.kind = "return"
       /\ Len(result.value.bodyFields) + Len(result.value.headerFields)
            = Len(fields)
       /\ \E H \in SUBSET all :
            /\ result.value.headerFields = Restrict(fields, H, 1)
            /\ result.value.bodyFields = Restrict(fields, all \ H, 1)

C1_Witness ==
  /\ Split
  /\ options.schema.primaryKey.t = "array"
  /\ Len(options.schema.fields) = 2
  /\ Len(result.value.bodyFields) = 1
  /\ Len(result.value.headerFields) = 1

(***************************************************************************)
(* C2.  A field is in headerFields if and only if its name is in the       *)
(* normalized primary-key set, and headerFields keeps schema order, not    *)
(* primaryKey order: fields [id, x] with primaryKey [x, id] give [id, x].  *)
(***************************************************************************)
C2_HeaderByMembershipInSchemaOrder ==
  Split =>
    /\ result.value.headerFields = HeaderOf(options.schema)
    /\ \A f \in Elements(options.schema.fields) :
         f \in Elements(result.value.headerFields)
           <=> f.name \in KeySet(options.schema.primaryKey)

C2_Witness ==
  /\ Split
  /\ options.schema.primaryKey = Arr(<<"x", "id">>)
  /\ Len(options.schema.fields) = 2
  /\ options.schema.fields[1].name = "id"
  /\ options.schema.fields[2].name = "x"
  /\ result.value.headerFields = options.schema.fields

(***************************************************************************)
(* C9.  splitFields depends only on the set of primary-key names that      *)
(* match a field: unmatched names, repeated names, the order of the list   *)
(* and string-versus-list make no difference, no primaryKey raises an      *)
(* error, and an absent primaryKey leaves every field in bodyFields.       *)
(***************************************************************************)
C9_OnlyTheKeySetMatters ==
  Split =>
    LET schema == options.schema
        matched == KeySet(schema.primaryKey) \cap FieldNames(schema)
    IN /\ result.kind = "return"
       /\ \A other \in PrimaryKeys :
            KeySet(other) \cap FieldNames(schema) = matched
              => splitFields([schema EXCEPT !.primaryKey = other])
                   = result.value
       /\ schema.primaryKey = Undefined
            => /\ result.value.headerFields = <<>>
               /\ result.value.bodyFields = schema.fields

C9_Witness ==
  /\ Split
  /\ options.schema.primaryKey = Arr(<<"k", "id">>)
  /\ Len(options.schema.fields) = 2
  /\ options.schema.fields[2].name = "id"
  /\ Len(result.value.headerFields) = 1

(***************************************************************************)
(* The queries, read against the constructor's options.                    *)
(***************************************************************************)
Called(op) == pc = "called" /\ call.op = op

\* the field list a region addresses, from the schema
RegionFields(region) ==
  IF region \in {"body", "column-header"} THEN BodyOf(options.schema)
  ELSE HeaderOf(options.schema)

\* the call's row and column are within the counts of its region
InBounds ==
  /\ call.region \in CellRegions
  /\ call.column \in 0 .. Len(RegionFields(call.region)) - 1
  /\ call.region \in {"body", "row-header"}
       => call.row \in 0 .. Len(options.data) - 1

\* the raw value of the spec's table, for an in-bounds call
Raw ==
  LET field == RegionFields(call.region)[call.column + 1] IN
    IF call.region \in {"body", "row-header"}
      THEN Get(options.data[call.row + 1], field.name)
      ELSE Str(field.name)

\* the strings the schema lists as missing
Listed ==
  IF options.schema.missingValues = Undefined THEN {}
  ELSE Elements(options.schema.missingValues.a)

RawIsListed == Raw.t = "string" /\ Raw.s \in Listed

(***************************************************************************)
(* C3.  rowCount('body') is the length of the dataset; rowCount of each of *)
(* the three header regions is 1 whatever the dataset, empty included.     *)
(***************************************************************************)
C3_RowCountLaw ==
  Called("rowCount") =>
    /\ result.kind = "return"
    /\ call.region = "body" => result.value = Num(Len(options.data))
    /\ call.region # "body" => result.value = Num(1)

C3_Witness ==
  /\ Called("rowCount")
  /\ call.region = "corner-header"
  /\ options.data = <<>>
  /\ result.value = Num(1)

(***************************************************************************)
(* C4.  columnCount('body') is the number of body fields and               *)
(* columnCount('row-header') the number of header fields of the partition  *)
(* made from the schema at construction; when the only field is the        *)
(* primary key they are 0 and 1.                                           *)
(***************************************************************************)
C4_ColumnCountLaw ==
  (Called("columnCount") /\ call.region \in {"body", "row-header"}) =>
    /\ result.kind = "return"
    /\ view._bodyFields = BodyOf(options.schema)
    /\ view._headerFields = HeaderOf(options.schema)
    /\ call.region = "body" => result.value = Num(Len(view._bodyFields))
    /\ call.region = "row-header"
         => result.value = Num(Len(view._headerFields))
    /\ ( /\ Len(options.schema.fields) = 1
         /\ options.schema.fields[1].name \in KeySet(options.schema.primaryKey) )
         => result.value = (IF call.region = "body" THEN Num(0) ELSE Num(1))

C4_Witness ==
  /\ Called("columnCount")
  /\ call.region = "body"
  /\ options.schema.fields = <<[name |-> "id", type |-> "integer"]>>
  /\ options.schema.primaryKey = Str("id")
  /\ result.value = Num(0)

(***************************************************************************)
(* C5 as stated.  For an in-bounds call, data is null if and only if the   *)
(* raw value is a string in the missing-value index, and any other raw     *)
(* value is returned unchanged.                                            *)
(***************************************************************************)
C5_NullOnlyWhenListed ==
  (Called("data") /\ InBounds) =>
    /\ result.kind = "return"
    /\ result.value = Null <=> RawIsListed
    /\ ~RawIsListed => result.value = Raw

(***************************************************************************)
(* C5 amended.  For an in-bounds call, data is null if and only if the raw *)
(* value is a string in the missing-value index or is itself null, and any *)
(* raw value that is not such a string is returned unchanged.              *)
(***************************************************************************)
C5_NullWhenListedOrNull ==
  (Called("data") /\ InBounds) =>
    /\ result.kind = "return"
    /\ result.value = Null <=> (RawIsListed \/ Raw = Null)
    /\ ~RawIsListed => result.value = Raw

C5_Witness ==
  /\ Called("data")
  /\ InBounds
  /\ call.region = "body"
  /\ Raw = Str("NA")
  /\ options.schema.missingValues = Arr(<<"NA">>)
  /\ result.value = Null

(***************************************************************************)
(* C6.  A view whose schema has no missingValues and a view whose schema   *)
(* has the empty list, built from the same fields, primaryKey and dataset, *)
(* answer every query alike, and neither substitutes: a raw empty string   *)
(* comes back as the empty string.                                         *)
(***************************************************************************)
TwinOptions ==
  [options EXCEPT !.schema.missingValues =
     IF @ = Undefined THEN Arr(<<>>) ELSE Undefined]

Answer(v, c) ==
  CASE c.op = "rowCount" -> rowCount(v, c.region)
    [] c.op = "columnCount" -> columnCount(v, c.region)
    [] c.op = "metadata" -> metadata(v, c.region, c.column)
    [] c.op = "data" -> data(v, c.region, c.row, c.column)

C6_AbsentEqualsEmptyList ==
  ( /\ pc = "called"
    /\ \/ options.schema.missingValues = Undefined
       \/ options.schema.missingValues = Arr(<<>>) ) =>
    /\ result = Answer(NewView(TwinOptions), call)
    /\ (call.op = "data" /\ InBounds) => result.value = Raw

C6_Witness ==
  /\ Called("data")
  /\ InBounds
  /\ options.schema.missingValues = Arr(<<>>)
  /\ Raw = Str("")
  /\ result.value = Str("")

(***************************************************************************)
(* C7.  For a column valid for the body fields, metadata of 'body' and of  *)
(* 'column-header' are the same field, bodyFields[c]; for a column valid   *)
(* for the header fields, metadata of 'row-header' and of 'corner-header'  *)
(* are the same field, headerFields[c].                                    *)
(***************************************************************************)
Counterpart(region) ==
  CASE region = "body" -> "column-header"
    [] region = "column-header" -> "body"
    [] region = "row-header" -> "corner-header"
    [] region = "corner-header" -> "row-header"

C7_MetadataConsistency ==
  ( /\ Called("metadata")
    /\ call.column \in 0 .. Len(RegionFields(call.region)) - 1 ) =>
    /\ result.kind = "return"
    /\ result.value = RegionFields(call.region)[call.column + 1]
    /\ result.value =
         (IF call.region \in {"body", "column-header"}
            THEN view._bodyFields ELSE view._headerFields)[call.column + 1]
    /\ result = metadata(view, Counterpart(call.region), call.column)

C7_Witness ==
  /\ Called("metadata")
  /\ call.region = "column-header"
  /\ call.column = 0
  /\ Len(view._bodyFields) = 1
  /\ Len(view._headerFields) = 1
  /\ result.value = view._bodyFields[1]

(***************************************************************************)
(* C8.  A data call with a region outside the four fails: it throws, it    *)
(* returns no value, and it does so before any field or dataset lookup,    *)
(* whatever the row and column.                                            *)
(***************************************************************************)
C8_InvalidRegionFails ==
  (Called("data") /\ call.region \notin CellRegions) =>
    /\ result.kind = "throw"
    /\ result.value = Str("unreachable")
    /\ result.lookups = <<>>

C8_Witness ==
  /\ Called("data")
  /\ call.region = "bogus"
  /\ call.row = Len(options.data)
  /\ call.column = 0
  /\ Len(options.schema.fields) = 2
  /\ result.kind = "throw"

(***************************************************************************)
(* C10.  In the two label regions the missing-value substitution applies   *)
(* too: data is null when the field's name is listed in missingValues and  *)
(* the name itself otherwise, for every row and every dataset.             *)
(***************************************************************************)
LabelRows == -1 .. MaxRows + 1

C10_LabelsAreSubstituted ==
  ( /\ Called("data")
    /\ call.region \in {"column-header", "corner-header"}
    /\ call.column \in 0 .. Len(RegionFields(call.region)) - 1 ) =>
    LET name == RegionFields(call.region)[call.column + 1].name IN
      /\ result.kind = "return"
      /\ result.value = (IF name \in Listed THEN Null ELSE Str(name))
      /\ \A row \in LabelRows, source \in DataSources :
           data([view EXCEPT !._data = source], call.region, row, call.column)
             = result

C10_Witness ==
  /\ Called("data")
  /\ call.region = "column-header"
  /\ call.row = Len(options.data)
  /\ call.column \in 0 .. Len(RegionFields(call.region)) - 1
  /\ RegionFields(call.region)[call.column + 1].name = "NA"
  /\ options.schema.missingValues = Arr(<<"NA">>)
  /\ result.value = Null

=============================================================================
